---- MODULE Spec2Model ----
(***************************************************************************)
(* Model of tools/async_to_sync.py: the four ast.NodeTransformer passes    *)
(* (BlanksInserter, AsyncToSync, RenameAsyncToSync, FixAsyncSetters), the  *)
(* driver async_to_sync and the command main().                            *)
(*                                                                         *)
(* A tree node is a record with a "kind" (the ast class name) and the      *)
(* fields of that class.  Statements carry lineno/end_lineno.  None is the *)
(* record NoneNode.  An exception raised by a visitor is the record        *)
(* Raise(exc): no code of the file catches anything, so an exception       *)
(* anywhere in a pass ends the pass (see Run).                             *)
(* A str value is a sequence of one-character strings.                     *)
(***************************************************************************)
EXTENDS Integers, Sequences, FiniteSets, TLC

VARIABLES pc, source, tree, out, opt_output, opened, outfile, stdout, failedAt

vars == <<pc, source, tree, out, opt_output, opened, outfile, stdout, failedAt>>

(* ------------------------------------------------------------------ *)
(* Bounds of the input families                                        *)
(* ------------------------------------------------------------------ *)
MaxExprDepth == 3
MaxStmtDepth == 2
MaxBlanks == 2
MaxPieces == 3
MaxImportNames == 3

(* ------------------------------------------------------------------ *)
(* Node constructors                                                   *)
(* ------------------------------------------------------------------ *)
NoneNode == [kind |-> "None"]

Raise(e) == [kind |-> "Raise", exc |-> e]

Name(i) == [kind |-> "Name", id |-> i]

Attribute(v, a) == [kind |-> "Attribute", value |-> v, attr |-> a]

Await(v) == [kind |-> "Await", value |-> v]

Call(f, a, k) == [kind |-> "Call", func |-> f, args |-> a, keywords |-> k]

keyword(a, v) == [kind |-> "keyword", arg |-> a, value |-> v]

Constant(t, v) == [kind |-> "Constant", ctype |-> t, value |-> v]

arg(a) == [kind |-> "arg", arg |-> a]

arguments(a, k) == [kind |-> "arguments", args |-> a, kwonlyargs |-> k]

alias(n) == [kind |-> "alias", name |-> n]

withitem(e) == [kind |-> "withitem", context_expr |-> e]

Module(b) == [kind |-> "Module", body |-> b]

(* ------------------------------------------------------------------ *)
(* Field tables of the node classes (ast._fields): which fields hold   *)
(* a list of nodes and which hold one node                             *)
(* ------------------------------------------------------------------ *)
ListFields(k) ==
    CASE k = "Module" -> {"body"}
      [] k \in {"FunctionDef", "AsyncFunctionDef"} -> {"body", "decorator_list"}
      [] k = "arguments" -> {"args", "kwonlyargs"}
      [] k \in {"For", "AsyncFor"} -> {"body", "orelse"}
      [] k \in {"With", "AsyncWith"} -> {"items", "body"}
      [] k = "Try" -> {"body", "handlers", "orelse", "finalbody"}
      [] k = "Assign" -> {"targets"}
      [] k = "Call" -> {"args", "keywords"}
      [] k = "ImportFrom" -> {"names"}
      [] OTHER -> {}

NodeFields(k) ==
    CASE k \in {"FunctionDef", "AsyncFunctionDef"} -> {"args", "returns"}
      [] k \in {"For", "AsyncFor"} -> {"target", "iter"}
      [] k = "withitem" -> {"context_expr"}
      [] k \in {"Expr", "Assign", "Await", "Attribute", "keyword"} -> {"value"}
      [] k = "Call" -> {"func"}
      [] OTHER -> {}

(* ast.copy_location(new_node, node): the position attributes node has *)
copy_location(new_node, node) ==
    LET pos == {"lineno", "end_lineno"} \cap DOMAIN node
    IN  [f \in DOMAIN new_node \cup pos |-> IF f \in pos THEN node[f] ELSE new_node[f]]

(* ------------------------------------------------------------------ *)
(* The static tables                                                   *)
(* ------------------------------------------------------------------ *)
names_map ==
    ("AsyncClientCursor" :> "ClientCursor") @@ ("AsyncCursor" :> "Cursor")
    @@ ("AsyncRawCursor" :> "RawCursor") @@ ("AsyncServerCursor" :> "ServerCursor")
    @@ ("aclose" :> "close") @@ ("aclosing" :> "closing") @@ ("aconn" :> "conn")
    @@ ("aconn_cls" :> "conn_cls") @@ ("aconn_set" :> "conn_set")
    @@ ("alist" :> "list") @@ ("anext" :> "next")

skip_imports == {"alist", "anext"}

setters_map ==
    ("set_autocommit" :> "autocommit") @@ ("set_read_only" :> "read_only")
    @@ ("set_isolation_level" :> "isolation_level") @@ ("set_deferrable" :> "deferrable")

(* names_map.get(n, n) *)
names_map_get(n) == IF n \in DOMAIN names_map THEN names_map[n] ELSE n

(* the literal "Async" of visit_Module *)
AsyncMarker == <<"A", "s", "y", "n", "c">>

(* str.replace(old, "", 1): only the first occurrence of old goes *)
RECURSIVE str_replace_first(_, _)
str_replace_first(s, old) ==
    IF Len(s) < Len(old) THEN s
    ELSE IF SubSeq(s, 1, Len(old)) = old
         THEN SubSeq(s, Len(old) + 1, Len(s))
         ELSE <<Head(s)>> \o str_replace_first(Tail(s), old)

(* str.replace(old, ""): the leftmost non-overlapping occurrences of old go *)
RECURSIVE str_replace(_, _)
str_replace(s, old) ==
    IF Len(s) < Len(old) THEN s
    ELSE IF SubSeq(s, 1, Len(old)) = old
         THEN str_replace(SubSeq(s, Len(old) + 1, Len(s)), old)
         ELSE <<Head(s)>> \o str_replace(Tail(s), old)

(* ------------------------------------------------------------------ *)
(* ast.NodeTransformer                                                 *)
(* ------------------------------------------------------------------ *)
RECURSIVE Visit(_, _), VisitList(_, _), InPlace(_)

(* NodeTransformer.generic_visit: every list field keeps the visited    *)
(* elements that are not None, every node field becomes the visit's     *)
(* result; a field that is None is not visited                          *)
generic_visit(p, node) ==
    [f \in DOMAIN node |->
        IF f \in ListFields(node.kind) THEN VisitList(p, node[f])
        ELSE IF f \in NodeFields(node.kind) /\ node[f] # NoneNode THEN Visit(p, node[f])
        ELSE node[f]]

(* ---- class AsyncToSync ---- *)
visit_AsyncFunctionDef(node) ==
    LET new_node == copy_location(
            [kind |-> "FunctionDef", name |-> node.name, args |-> node.args,
             body |-> node.body, decorator_list |-> node.decorator_list,
             returns |-> node.returns], node)
    IN  Visit("AsyncToSync", new_node)

(* visit_AsyncFor with the else-branch left out of the new node *)
visit_AsyncFor_NoElse(node) ==
    LET new_node == copy_location(
            [kind |-> "For", target |-> node.target, iter |-> node.iter,
             body |-> node.body, orelse |-> <<>>], node)
    IN  Visit("AsyncToSync", new_node)

visit_AsyncFor(node) ==
    LET new_node == copy_location(
            [kind |-> "For", target |-> node.target, iter |-> node.iter,
             body |-> node.body, orelse |-> node.orelse], node)
    IN  Visit("AsyncToSync", new_node)

visit_AsyncWith(node) ==
    LET new_node == copy_location(
            [kind |-> "With", items |-> node.items, body |-> node.body], node)
    IN  Visit("AsyncToSync", new_node)

(* new_node = node.value; self.visit(new_node); return new_node: the    *)
(* visit's return value is dropped, what is returned is the operand     *)
(* object as the visit left it                                          *)
visit_Await(node) == InPlace(node.value)

(* ---- class RenameAsyncToSync ---- *)
visit_Module(node) ==
    IF /\ node.body # <<>>
       /\ node.body[1].kind = "Expr"
       /\ node.body[1].value.kind = "Constant"
    THEN IF node.body[1].value.ctype # "str"
         THEN Raise("AttributeError")
         ELSE generic_visit("RenameAsyncToSync",
                [node EXCEPT !.body[1].value.value = str_replace(@, AsyncMarker)])
    ELSE generic_visit("RenameAsyncToSync", node)

RenameArgs(args) == [i \in 1..Len(args) |-> [args[i] EXCEPT !.arg = names_map_get(@)]]

visit_FunctionDef(node) ==
    generic_visit("RenameAsyncToSync",
        [node EXCEPT !.name = names_map_get(@), !.args.args = RenameArgs(@)])

KeptImports(names) == SelectSeq(names, LAMBDA n : n.name \notin skip_imports)

RenameImports(names) == [i \in 1..Len(names) |-> [names[i] EXCEPT !.name = names_map_get(@)]]

(* visit_ImportFrom without the test of the source module *)
visit_ImportFrom_AnyModule(node) ==
    LET names == KeptImports(node.names)
    IN  IF names = <<>>
        THEN NoneNode
        ELSE [node EXCEPT !.names = RenameImports(names)]

visit_ImportFrom(node) ==
    LET names == IF node.module = "utils" THEN KeptImports(node.names) ELSE node.names
    IN  IF node.module = "utils" /\ names = <<>>
        THEN NoneNode
        ELSE [node EXCEPT !.names = RenameImports(names)]

visit_Name(node) ==
    IF node.id \in DOMAIN names_map THEN [node EXCEPT !.id = names_map[node.id]] ELSE node

visit_Attribute(node) ==
    generic_visit("RenameAsyncToSync",
        IF node.attr \in DOMAIN names_map
        THEN [node EXCEPT !.attr = names_map[node.attr]] ELSE node)

(* ---- class FixAsyncSetters ---- *)
fix_setter(node) ==
    IF node.func.kind # "Attribute" THEN NoneNode
    ELSE IF node.func.attr \notin DOMAIN setters_map THEN NoneNode
    ELSE IF node.args = <<>> THEN Raise("IndexError")
    ELSE copy_location(
            [kind |-> "Assign",
             targets |-> <<Attribute(node.func.value, setters_map[node.func.attr])>>,
             value |-> node.args[1]], node)

visit_Call(node) ==
    LET new_node == fix_setter(node)
    IN  IF new_node # NoneNode THEN new_node ELSE generic_visit("FixAsyncSetters", node)

(* ---- class BlanksInserter ---- *)
Comment(line) ==
    [kind |-> "Comment", value |-> <<>>, inline |-> FALSE,
     lineno |-> line, end_lineno |-> line, col_offset |-> 0, end_col_offset |-> 0]

(* the loop of _inject_blanks from index i on, before = body[i - 1] *)
RECURSIVE inject_from(_, _)
inject_from(body, i) ==
    IF i > Len(body) THEN <<>>
    ELSE LET before == body[i - 1]
             after == body[i]
             nblanks == after.lineno - before.end_lineno - 1
         IN  (IF nblanks > 0 THEN <<Comment(before.end_lineno + 1)>> ELSE <<>>)
             \o <<after>> \o inject_from(body, i + 1)

inject_blanks(body) ==
    IF body = <<>> THEN body ELSE <<body[1]>> \o inject_from(body, 2)

Blanks_generic_visit(node) ==
    generic_visit("BlanksInserter",
        IF "body" \in DOMAIN node
        THEN [node EXCEPT !.body = inject_blanks(@)] ELSE node)

(* ---- NodeVisitor.visit: dispatch on the pass and the node class ---- *)
Visit(p, node) ==
    CASE node.kind = "Raise" -> node
      [] p = "BlanksInserter" /\ node.kind # "Raise" -> Blanks_generic_visit(node)
      [] p = "AsyncToSync" /\ node.kind = "AsyncFunctionDef" -> visit_AsyncFunctionDef(node)
      [] p = "AsyncToSync" /\ node.kind = "AsyncFor" -> visit_AsyncFor(node)
      [] p = "AsyncToSync" /\ node.kind = "AsyncWith" -> visit_AsyncWith(node)
      [] p = "AsyncToSync" /\ node.kind = "Await" -> visit_Await(node)
      [] p = "RenameAsyncToSync" /\ node.kind = "Module" -> visit_Module(node)
      [] p = "RenameAsyncToSync" /\ node.kind = "FunctionDef" -> visit_FunctionDef(node)
      [] p = "RenameAsyncToSync" /\ node.kind = "ImportFrom" -> visit_ImportFrom(node)
      [] p = "RenameAsyncToSync" /\ node.kind = "Name" -> visit_Name(node)
      [] p = "RenameAsyncToSync" /\ node.kind = "Attribute" -> visit_Attribute(node)
      [] p = "FixAsyncSetters" /\ node.kind = "Call" -> visit_Call(node)
      [] OTHER -> generic_visit(p, node)

(* the loop of generic_visit over a list field: a None result is dropped *)
VisitList(p, seq) ==
    IF seq = <<>> THEN <<>>
    ELSE LET value == Visit(p, Head(seq))
         IN  (IF value = NoneNode THEN <<>> ELSE <<value>>) \o VisitList(p, Tail(seq))

(* The object `node` after AsyncToSync().visit(node) has run and its      *)
(* return value was dropped: generic_visit changes the node in place and  *)
(* returns it; visit_Await changes only its operand; the visit_Async*     *)
(* methods build a new node and leave the old one with the visited lists  *)
(* it shares with the new one                                             *)
InPlace(node) ==
    CASE node.kind = "Await" -> [node EXCEPT !.value = InPlace(@)]
      [] node.kind \in {"AsyncFunctionDef", "AsyncFor", "AsyncWith"} ->
            [f \in DOMAIN node |->
                IF f \in ListFields(node.kind) THEN VisitList("AsyncToSync", node[f])
                ELSE IF f \in NodeFields(node.kind) /\ node[f] # NoneNode THEN InPlace(node[f])
                ELSE node[f]]
      [] OTHER -> Visit("AsyncToSync", node)

(* whether a node of one of the kinds ks occurs in the tree t *)
RECURSIVE HasKind(_, _)
HasKind(t, ks) ==
    \/ t.kind \in ks
    \/ \E f \in ListFields(t.kind) \cap DOMAIN t :
          \E i \in 1..Len(t[f]) : HasKind(t[f][i], ks)
    \/ \E f \in NodeFields(t.kind) \cap DOMAIN t : HasKind(t[f], ks)

(* One pass over a tree, <Class>().visit(tree): nothing in the file      *)
(* catches an exception, so one raised anywhere ends the pass            *)
Run(p, t) ==
    LET r == Visit(p, t)
    IN  IF HasKind(r, {"Raise"}) THEN Raise("error") ELSE r

async_to_sync(t) ==
    LET t1 == Run("BlanksInserter", t)
        t2 == IF t1.kind = "Raise" THEN t1 ELSE Run("AsyncToSync", t1)
        t3 == IF t2.kind = "Raise" THEN t2 ELSE Run("RenameAsyncToSync", t2)
    IN  IF t3.kind = "Raise" THEN t3 ELSE Run("FixAsyncSetters", t3)

(* tree_to_str: the three banner lines, then ast.unparse(tree) *)
tree_to_str(t) == [banner |-> 3, text |-> t]

(* ------------------------------------------------------------------ *)
(* Source text and ast.parse                                           *)
(*                                                                     *)
(* A source is the tree of its statements without positions, each      *)
(* statement with "blanks", the number of blank lines above it.        *)
(* ast.parse gives every statement its lineno (the line of its own     *)
(* keyword: decorators lie above it) and end_lineno.                   *)
(* ------------------------------------------------------------------ *)
Last(s) == s[Len(s)]

RECURSIVE PlaceStmt(_, _), PlaceBlock(_, _)
PlaceStmt(s, first) ==
    LET has(f) == f \in DOMAIN s /\ s[f] # <<>>
        lineno == first + (IF has("decorator_list") THEN Len(s.decorator_list) ELSE 0)
        body == IF has("body") THEN PlaceBlock(s.body, lineno + 1) ELSE <<>>
        bodyEnd == IF body = <<>> THEN lineno ELSE Last(body).end_lineno
        orelse == IF has("orelse") THEN PlaceBlock(s.orelse, bodyEnd + 2) ELSE <<>>
        elseEnd == IF orelse = <<>> THEN bodyEnd ELSE Last(orelse).end_lineno
        finalbody == IF has("finalbody") THEN PlaceBlock(s.finalbody, elseEnd + 2) ELSE <<>>
        end_lineno == IF finalbody = <<>> THEN elseEnd ELSE Last(finalbody).end_lineno
    IN  [f \in (DOMAIN s \ {"blanks"}) \cup {"lineno", "end_lineno"} |->
            CASE f = "lineno" -> lineno
              [] f = "end_lineno" -> end_lineno
              [] f = "body" -> body
              [] f = "orelse" -> orelse
              [] f = "finalbody" -> finalbody
              [] OTHER -> s[f]]

PlaceBlock(b, first) ==
    IF b = <<>> THEN <<>>
    ELSE LET h == PlaceStmt(Head(b), first + Head(b).blanks)
         IN  <<h>> \o PlaceBlock(Tail(b), h.end_lineno + 1)

ast_parse(src) == Module(PlaceBlock(src.body, 1))

(* source statements *)
SExpr(e, b) == [kind |-> "Expr", value |-> e, blanks |-> b]

SDef(k, n, a, body, dec, ret, b) ==
    [kind |-> k, name |-> n, args |-> a, body |-> body, decorator_list |-> dec,
     returns |-> ret, blanks |-> b]

SFor(k, t, it, body, orelse, b) ==
    [kind |-> k, target |-> t, iter |-> it, body |-> body, orelse |-> orelse, blanks |-> b]

SWith(k, items, body, b) == [kind |-> k, items |-> items, body |-> body, blanks |-> b]

STry(body, finalbody, b) ==
    [kind |-> "Try", body |-> body, handlers |-> <<>>, orelse |-> <<>>,
     finalbody |-> finalbody, blanks |-> b]

SImportFrom(m, names, b) ==
    [kind |-> "ImportFrom", module |-> m, names |-> names, level |-> 0, blanks |-> b]

(* ------------------------------------------------------------------ *)
(* Input family of the Construct Desugarer                             *)
(* ------------------------------------------------------------------ *)
RECURSIVE Exprs(_)
Exprs(d) ==
    IF d = 0 THEN {Name("x")}
    ELSE Exprs(d - 1)
         \cup {Await(e) : e \in Exprs(d - 1)}
         \cup {Call(Name("f"), <<e>>, <<>>) : e \in Exprs(d - 1)}

RECURSIVE DStmts(_)
DStmts(d) ==
    IF d = 0 THEN {SExpr(e, 0) : e \in Exprs(MaxExprDepth)}
    ELSE LET S == DStmts(d - 1)
             a == arguments(<<arg("a")>>, <<>>)
         IN  S
             \cup {SDef("AsyncFunctionDef", "f", a, <<s>>, <<>>, NoneNode, 0) : s \in S}
             \cup {SDef("AsyncFunctionDef", "g", a, <<s>>, <<Name("dec")>>, Name("int"), 0) : s \in S}
             \cup {SFor("AsyncFor", Name("i"), Name("it"), <<s>>, <<>>, 0) : s \in S}
             \cup {SFor("AsyncFor", Name("i"), Await(Name("it")), <<s>>,
                        <<SExpr(Await(Name("y")), 0)>>, 0) : s \in S}
             \cup {SWith("AsyncWith", <<withitem(Await(Name("cm")))>>, <<s>>, 0) : s \in S}
             \cup {SFor("For", Name("i"), Name("it"), <<s>>, <<>>, 0) : s \in S}

DesugarSources == {[body |-> <<s>>] : s \in DStmts(MaxStmtDepth)}

(* ------------------------------------------------------------------ *)
(* One pass applied to a parsed tree                                   *)
(* ------------------------------------------------------------------ *)
NoIO == /\ opt_output = FALSE /\ opened = {} /\ outfile = "absent"
        /\ stdout = <<>> /\ failedAt = "none"

InitPass(sources) ==
    /\ source \in sources
    /\ tree = ast_parse(source)
    /\ pc = "parsed"
    /\ out = NoneNode
    /\ NoIO

ApplyPass(p) ==
    /\ pc = "parsed"
    /\ out' = Run(p, tree)
    /\ pc' = "visited"
    /\ UNCHANGED <<source, tree, opt_output, opened, outfile, stdout, failedAt>>

DoAsyncToSync == ApplyPass("AsyncToSync")

SpecDesugar == InitPass(DesugarSources) /\ [][DoAsyncToSync]_vars

(* ------------------------------------------------------------------ *)
(* Construct Desugarer: C1, C2                                         *)
(* ------------------------------------------------------------------ *)
AsyncStmtKinds == {"AsyncFunctionDef", "AsyncFor", "AsyncWith"}

PlainKind(k) ==
    CASE k = "AsyncFunctionDef" -> "FunctionDef"
      [] k = "AsyncFor" -> "For"
      [] k = "AsyncWith" -> "With"
      [] OTHER -> k

(* the tree with every async marker dropped from a statement's kind and *)
(* every Await replaced by its operand                                  *)
RECURSIVE StripAsync(_)
StripAsync(t) ==
    IF t.kind = "Await" THEN StripAsync(t.value)
    ELSE [f \in DOMAIN t |->
            IF f = "kind" THEN PlainKind(t.kind)
            ELSE IF f \in ListFields(t.kind)
                 THEN [i \in 1..Len(t[f]) |-> StripAsync(t[f][i])]
            ELSE IF f \in NodeFields(t.kind) THEN StripAsync(t[f])
            ELSE t[f]]

(* C1: after AsyncToSync().visit(tree) the tree holds no Await node at  *)
(* all, whatever the nesting of the suspension expressions.             *)
C1_NoAwaitRemains == pc = "visited" => ~HasKind(out, {"Await"})

(* C2: after AsyncToSync().visit(tree) no async function, async for or  *)
(* async with remains; each was replaced in place by the plain          *)
(* statement with the same children, so the result differs from the     *)
(* input only by the async markers and suspension wrappers dropped; a   *)
(* tree without any async construct comes back unchanged.               *)
C2_PlainCounterparts ==
    pc = "visited" =>
        /\ ~HasKind(out, AsyncStmtKinds)
        /\ StripAsync(out) = StripAsync(tree)
        /\ (~HasKind(tree, AsyncStmtKinds \cup {"Await"}) => out = tree)

C2_Witness ==
    /\ pc = "visited"
    /\ tree.body[1].kind = "AsyncFunctionDef"
    /\ tree.body[1].decorator_list # <<>>
    /\ tree.body[1].body[1].kind = "AsyncFor"
    /\ tree.body[1].body[1].orelse # <<>>
    /\ out.body[1].kind = "FunctionDef"
    /\ out.body[1].body[1].kind = "For"
    /\ out.body[1].body[1].orelse # <<>>

(* ------------------------------------------------------------------ *)
(* Input family of the Identifier Renamer                              *)
(* ------------------------------------------------------------------ *)
RenNames == {"aconn", "alist", "foo"}

RenExprs ==
    {Name(n) : n \in RenNames}
    \cup {Attribute(Name(n), m) : n \in RenNames, m \in {"aclose", "bar"}}
    \cup {Call(Attribute(Name("aconn"), "aclose"), <<Name("alist")>>, <<>>)}

ArgLists ==
    {<<>>, <<arg("aconn"), arg("foo")>>} \cup {<<arg(n)>> : n \in RenNames}

FuncSources ==
    {[body |-> <<SDef("FunctionDef", nm, arguments(a, k), <<SExpr(e, 0)>>, <<>>, NoneNode, 0)>>] :
        nm \in {"aclose", "foo"}, a \in ArgLists, k \in ArgLists, e \in RenExprs}

ImportNames == {"alist", "anext", "aconn", "foo"}

RECURSIVE AliasSeqs(_)
AliasSeqs(n) ==
    IF n = 0 THEN {<<>>}
    ELSE {Append(q, alias(x)) : q \in AliasSeqs(n - 1), x \in ImportNames}

Imports ==
    {SImportFrom(m, q, 0) :
        m \in {"utils", "other"}, q \in UNION {AliasSeqs(n) : n \in 1..MaxImportNames}}

ImportSources ==
    {[body |-> <<SExpr(Name("foo"), 0), i, SExpr(Name("alist"), 0)>>] : i \in Imports}
    \cup {[body |-> <<SDef("FunctionDef", "f", arguments(<<>>, <<>>), <<i, SExpr(Name("foo"), 0)>>,
                          <<>>, NoneNode, 0)>>] : i \in Imports}

Pieces ==
    {AsyncMarker, <<"A", "s">>, <<"y", "n", "c">>,
     <<" ", "t", "h", "i", "n", "g", ".">>, <<"T">>}

RECURSIVE Concats(_)
Concats(n) ==
    IF n = 0 THEN {<<>>} ELSE {q \o x : q \in Concats(n - 1), x \in Pieces}

DocStrings == UNION {Concats(n) : n \in 0..MaxPieces}

DocSources ==
    {[body |-> <<SExpr(Constant("str", d), 0)>>] : d \in DocStrings}
    \cup {[body |-> <<SExpr(Name("foo"), 0), SExpr(Constant("str", d), 0)>>] : d \in DocStrings}

(* a module whose first statement is a bare constant that is no string: `1` *)
NonStrSources == {[body |-> <<SExpr(Constant("int", <<"1">>), 0), SExpr(Name("x"), 0)>>]}

RenameSources == FuncSources \cup ImportSources \cup DocSources \cup NonStrSources

DoRename == ApplyPass("RenameAsyncToSync")

SpecRename == InitPass(RenameSources) /\ [][DoRename]_vars

(* ------------------------------------------------------------------ *)
(* Identifier Renamer: C3, C6, C9                                      *)
(* ------------------------------------------------------------------ *)
FieldOrder ==
    <<"args", "kwonlyargs", "decorator_list", "returns", "names", "target", "iter",
      "items", "context_expr", "func", "value", "targets", "keywords", "body",
      "orelse", "handlers", "finalbody">>

OwnIdent(t) ==
    CASE t.kind \in {"FunctionDef", "AsyncFunctionDef"} -> <<t.name>>
      [] t.kind = "arg" -> <<t.arg>>
      [] t.kind = "Name" -> <<t.id>>
      [] t.kind = "Attribute" -> <<t.attr>>
      [] t.kind = "alias" -> <<t.name>>
      [] OTHER -> <<>>

(* the identifiers of the tree, in order: declaration names, parameter  *)
(* names, name references, attribute names, imported names              *)
RECURSIVE Idents(_), IdentsSeq(_), IdentsFields(_, _)
Idents(t) == OwnIdent(t) \o IdentsFields(t, 1)

IdentsFields(t, i) ==
    IF i > Len(FieldOrder) THEN <<>>
    ELSE LET f == FieldOrder[i]
         IN  (IF f \in DOMAIN t \cap ListFields(t.kind) THEN IdentsSeq(t[f])
              ELSE IF f \in DOMAIN t \cap NodeFields(t.kind) THEN Idents(t[f])
              ELSE <<>>)
             \o IdentsFields(t, i + 1)

IdentsSeq(q) == IF q = <<>> THEN <<>> ELSE Idents(Head(q)) \o IdentsSeq(Tail(q))

RECURSIVE HasShadowImport(_)
HasShadowImport(t) ==
    \/ /\ t.kind = "ImportFrom"
       /\ t.module = "utils"
       /\ \E i \in 1..Len(t.names) : t.names[i].name \in skip_imports
    \/ \E f \in ListFields(t.kind) \cap DOMAIN t :
          \E i \in 1..Len(t[f]) : HasShadowImport(t[f][i])

(* C3: after RenameAsyncToSync().visit(tree) every declaration name,    *)
(* parameter name (of any parameter), name reference, attribute name    *)
(* and imported name that is a key of names_map is replaced by its      *)
(* value, and every other identifier is unchanged (the imports of       *)
(* shadow names from utils, which C9 removes, set aside).               *)
C3_RenamingTotal ==
    (pc = "visited" /\ out.kind = "Module" /\ ~HasShadowImport(tree)) =>
        Idents(out) = [i \in 1..Len(Idents(tree)) |-> names_map_get(Idents(tree)[i])]

HasDoc(t) ==
    /\ t.body # <<>>
    /\ t.body[1].kind = "Expr"
    /\ t.body[1].value.kind = "Constant"
    /\ t.body[1].value.ctype = "str"

Doc(t) == t.body[1].value.value

(* where the marker occurs in s, and the characters of s outside every  *)
(* occurrence                                                           *)
Occurrences(s) ==
    {p \in 1..Len(s) :
        p + Len(AsyncMarker) - 1 <= Len(s) /\ SubSeq(s, p, p + Len(AsyncMarker) - 1) = AsyncMarker}

RECURSIVE Outside(_, _)
Outside(s, i) ==
    IF i > Len(s) THEN <<>>
    ELSE (IF \E p \in Occurrences(s) : p <= i /\ i < p + Len(AsyncMarker)
          THEN <<>> ELSE <<s[i]>>)
         \o Outside(s, i + 1)

AsyncThing == AsyncMarker \o <<" ", "t", "h", "i", "n", "g", ".">>

(* C6 as stated: the docstring loses every occurrence of "Async", its   *)
(* other characters untouched, so that "Async thing." becomes "Thing."; *)
(* a string without the marker is unchanged.                            *)
C6_DocstringAsStated ==
    (pc = "visited" /\ HasDoc(tree)) =>
        /\ HasDoc(out)
        /\ Doc(out) = Outside(Doc(tree), 1)
        /\ (Doc(tree) = AsyncThing => Doc(out) = <<"T", "h", "i", "n", "g", ".">>)
        /\ (Occurrences(Doc(tree)) = {} => Doc(out) = Doc(tree))

(* C6, amended: the docstring loses every occurrence of "Async", its    *)
(* other characters untouched, so that "Async thing." becomes           *)
(* " thing." (the space and the lower-case t stay); a string without    *)
(* the marker is unchanged.                                             *)
C6_DocstringAmended ==
    (pc = "visited" /\ HasDoc(tree)) =>
        /\ HasDoc(out)
        /\ Doc(out) = Outside(Doc(tree), 1)
        /\ (Doc(tree) = AsyncThing => Doc(out) = <<" ", "t", "h", "i", "n", "g", ".">>)
        /\ (Occurrences(Doc(tree)) = {} => Doc(out) = Doc(tree))

C6_Witness ==
    /\ pc = "visited"
    /\ HasDoc(tree)
    /\ Doc(tree) = AsyncThing
    /\ Doc(out) = <<" ", "t", "h", "i", "n", "g", ".">>

(* what C9 says an import-from statement becomes: no statement, or the  *)
(* statement with the names left                                        *)
ExpectedImport(s) ==
    LET left == IF s.module = "utils"
                THEN SelectSeq(s.names, LAMBDA n : n.name \notin {"alist", "anext"})
                ELSE s.names
    IN  IF left = <<>> THEN <<>>
        ELSE <<[s EXCEPT !.names = [i \in 1..Len(left) |-> alias(names_map_get(left[i].name))]]>>

RECURSIVE ImportsAsExpected(_, _)
ImportsAsExpected(bin, bout) ==
    IF bin = <<>> THEN bout = <<>>
    ELSE LET s == Head(bin)
         IN  IF s.kind = "ImportFrom"
             THEN IF ExpectedImport(s) = <<>>
                  THEN ImportsAsExpected(Tail(bin), bout)
                  ELSE /\ bout # <<>>
                       /\ Head(bout) = ExpectedImport(s)[1]
                       /\ ImportsAsExpected(Tail(bin), Tail(bout))
             ELSE /\ bout # <<>>
                  /\ Head(bout).kind = s.kind
                  /\ \A f \in {"body", "orelse", "finalbody"} \cap DOMAIN s :
                        ImportsAsExpected(s[f], Head(bout)[f])
                  /\ ImportsAsExpected(Tail(bin), Tail(bout))

(* C9: an import-from of "utils" loses exactly its names in {alist,     *)
(* anext} (as written), keeps the others in order and renamed, and is   *)
(* removed from its block iff no name is left; an import-from of any    *)
(* other module keeps every name, renamed.                              *)
C9_ShadowImports ==
    (pc = "visited" /\ out.kind = "Module") => ImportsAsExpected(tree.body, out.body)

C9_Witness ==
    /\ pc = "visited"
    /\ Len(tree.body) = 3
    /\ tree.body[2].kind = "ImportFrom"
    /\ tree.body[2].module = "utils"
    /\ tree.body[2].names = <<alias("alist"), alias("aconn"), alias("foo")>>
    /\ out.body[2].names = <<alias("conn"), alias("foo")>>

(* ------------------------------------------------------------------ *)
(* Input family of the Call-to-Assignment Rewriter                     *)
(* ------------------------------------------------------------------ *)
True == Constant("bool", <<"T", "r", "u", "e">>)

SetObjs == {Name("x"), Attribute(Name("self"), "conn")}

SetMethods == {"set_autocommit", "set_read_only", "commit"}

SetVals == {True, Name("y"), Call(Attribute(Name("z"), "set_deferrable"), <<True>>, <<>>)}

SetArgs == {<<>>, <<True, Name("y")>>} \cup {<<v>> : v \in SetVals}

SetKeywords == {<<>>, <<keyword("value", True)>>}

SetCalls ==
    {Call(f, a, k) :
        f \in {Name("f")} \cup {Attribute(o, m) : o \in SetObjs, m \in SetMethods},
        a \in SetArgs, k \in SetKeywords}

SetterSources ==
    {[body |-> <<SExpr(c, 0)>>] : c \in SetCalls}
    \cup {[body |-> <<SExpr(Call(Attribute(Name("x"), "commit"), <<>>, <<>>), 0), SExpr(c, 0)>>] :
            c \in SetCalls}
    \cup {[body |-> <<SDef("FunctionDef", "f", arguments(<<>>, <<>>), <<SExpr(c, 0)>>,
                          <<>>, NoneNode, 0)>>] : c \in SetCalls}

DoFixSetters == ApplyPass("FixAsyncSetters")

SpecSetters == InitPass(SetterSources) /\ [][DoFixSetters]_vars

(* ------------------------------------------------------------------ *)
(* Call-to-Assignment Rewriter: C4, C7                                 *)
(* ------------------------------------------------------------------ *)
IsCallStmt(s) == s.kind = "Expr" /\ s.value.kind = "Call"

(* a statement that is solely a call obj.m(v), m a key of setters_map *)
IsSetterStmt(s) ==
    /\ IsCallStmt(s)
    /\ s.value.func.kind = "Attribute"
    /\ s.value.func.attr \in DOMAIN setters_map
    /\ Len(s.value.args) = 1
    /\ s.value.keywords = <<>>

IsOtherCallStmt(s) ==
    /\ IsCallStmt(s)
    /\ \/ s.value.func.kind # "Attribute"
       \/ s.value.func.attr \notin DOMAIN setters_map

RECURSIVE SettersAsStated(_, _)
SettersAsStated(bin, bout) ==
    /\ Len(bout) = Len(bin)
    /\ \A i \in 1..Len(bin) :
          /\ IsSetterStmt(bin[i]) =>
                /\ bout[i].kind = "Assign"
                /\ bout[i].targets =
                      <<Attribute(bin[i].value.func.value, setters_map[bin[i].value.func.attr])>>
                /\ bout[i].value = bin[i].value.args[1]
          /\ IsOtherCallStmt(bin[i]) => IsCallStmt(bout[i])
          /\ \A f \in {"body", "orelse", "finalbody"} \cap DOMAIN bin[i] :
                SettersAsStated(bin[i][f], bout[i][f])

(* C4: a statement that is solely a call obj.m(v), m a key of the       *)
(* Setter Table, becomes the assignment statement obj.<table[m]> = v:   *)
(* the statement node itself is an Assign with obj and v unchanged; a   *)
(* call statement of another method, or of a target that is no          *)
(* attribute access, stays a call statement.                            *)
C4_SetterBecomesAssign ==
    (pc = "visited" /\ out.kind = "Module") => SettersAsStated(tree.body, out.body)

(* C7: a pass is total over parsed trees: it returns a tree and raises  *)
(* nothing, also for a Setter Table call without positional argument.   *)
C7_PassesTotal == pc = "visited" => out.kind # "Raise"

(* ------------------------------------------------------------------ *)
(* Input family of the Layout Normalizer                               *)
(* ------------------------------------------------------------------ *)
Gaps == 0..MaxBlanks

Leaf(b) == SExpr(Name("x"), b)

InnerBlocks == {<<Leaf(0)>>} \cup {<<Leaf(0), Leaf(g)>> : g \in Gaps}

Shapes(b) ==
    {Leaf(b)}
    \cup {SDef("FunctionDef", "f", arguments(<<>>, <<>>), body, dec, NoneNode, b) :
            body \in InnerBlocks, dec \in {<<>>, <<Name("dec")>>}}
    \cup {SFor("For", Name("i"), Name("it"), body, orelse, b) :
            body \in InnerBlocks, orelse \in InnerBlocks \cup {<<>>}}
    \cup {STry(body, finalbody, b) : body \in InnerBlocks, finalbody \in InnerBlocks}

BlankSources ==
    {[body |-> <<s>>] : s \in Shapes(0)}
    \cup UNION {{[body |-> <<s1, s2>>] : s1 \in Shapes(0), s2 \in Shapes(g)} : g \in Gaps}

DoBlanks == ApplyPass("BlanksInserter")

SpecBlanks == InitPass(BlankSources) /\ [][DoBlanks]_vars

(* ------------------------------------------------------------------ *)
(* Layout Normalizer: C5, C10                                          *)
(* ------------------------------------------------------------------ *)
NotComment(n) == n.kind # "Comment"

(* for each statement of the block, the number of blank markers that   *)
(* stand between it and the statement before it                        *)
RECURSIVE MarkersBefore(_, _)
MarkersBefore(b, n) ==
    IF b = <<>> THEN <<>>
    ELSE IF Head(b).kind = "Comment" THEN MarkersBefore(Tail(b), n + 1)
    ELSE <<n>> \o MarkersBefore(Tail(b), 0)

BlockNames == {"body", "orelse", "finalbody"}

(* src: a block of the source; blk: the same block of the tree *)
RECURSIVE BlankKept(_, _)
BlankKept(src, blk) ==
    LET st == SelectSeq(blk, NotComment)
        m == MarkersBefore(blk, 0)
    IN  /\ Len(st) = Len(src)
        /\ \A j \in 1..Len(src) :
              /\ (j > 1 /\ src[j].blanks > 0) => m[j] = 1
              /\ \A f \in BlockNames \cap DOMAIN src[j] : BlankKept(src[j][f], st[j][f])

RECURSIVE NoBlankAdded(_, _)
NoBlankAdded(src, blk) ==
    LET st == SelectSeq(blk, NotComment)
        m == MarkersBefore(blk, 0)
    IN  /\ Len(st) = Len(src)
        /\ \A j \in 1..Len(src) :
              /\ (j > 1 /\ src[j].blanks = 0) => m[j] = 0
              /\ \A f \in BlockNames \cap DOMAIN src[j] : NoBlankAdded(src[j][f], st[j][f])

(* C5: after BlanksInserter().visit(tree), in every block (bodies and   *)
(* their else- and finally-branches) two consecutive statements that    *)
(* had one or more blank lines between them have exactly one blank      *)
(* marker between them.                                                 *)
C5_BlankInEveryBlock == pc = "visited" => BlankKept(source.body, out.body)

(* C10: no blank marker stands between two consecutive statements that  *)
(* had no blank line between them, the later one being a decorated      *)
(* declaration or not.                                                  *)
C10_NoBlankNoMarker == pc = "visited" => NoBlankAdded(source.body, out.body)

(* ------------------------------------------------------------------ *)
(* main(): one run of the command                                      *)
(*                                                                     *)
(* pc is the place in main; opened the files the process holds open;   *)
(* outfile the state of the file named by opt.output ("absent", "old": *)
(* there from before, "truncated": opened with "w", "written");        *)
(* stdout what was printed.  Opening, reading and writing may fail.    *)
(* ------------------------------------------------------------------ *)
WithSyntax(src, sx) == [body |-> src.body, syntax |-> sx]

MainSources ==
    {WithSyntax([body |-> <<s>>], "ok") : s \in DStmts(0)}
    \cup {WithSyntax([body |-> <<SExpr(c, 0)>>], "ok") : c \in SetCalls}
    \cup {WithSyntax(s, "ok") : s \in NonStrSources}
    \cup {WithSyntax([body |-> <<Leaf(0), Leaf(g)>>], "ok") : g \in Gaps}
    \cup {[body |-> <<>>, syntax |-> "bad"]}

InitMain ==
    /\ pc = "start"
    /\ source \in MainSources
    /\ tree = NoneNode
    /\ out = NoneNode
    /\ opt_output \in BOOLEAN
    /\ opened = {}
    /\ outfile \in (IF opt_output THEN {"absent", "old"} ELSE {"absent"})
    /\ stdout = <<>>
    /\ failedAt = "none"

Fail(where) == pc' = "failed" /\ failedAt' = where

(* with open(opt.filename) as f *)
OpenInput ==
    /\ pc = "start"
    /\ \/ opened' = opened \cup {"in"} /\ pc' = "in_open" /\ UNCHANGED failedAt
       \/ Fail("open_input") /\ UNCHANGED opened
    /\ UNCHANGED <<source, tree, out, opt_output, outfile, stdout>>

(* source = f.read() *)
ReadInput ==
    /\ pc = "in_open"
    /\ \/ pc' = "read"
       \/ pc' = "read_raised"
    /\ UNCHANGED <<source, tree, out, opt_output, opened, outfile, stdout, failedAt>>

(* leaving the with block without closing f when the body raised *)
ExitWithInput_NoClose ==
    /\ pc \in {"read", "read_raised"}
    /\ \/ pc = "read" /\ opened' = opened \ {"in"} /\ pc' = "closed" /\ UNCHANGED failedAt
       \/ pc = "read_raised" /\ Fail("read") /\ UNCHANGED opened
    /\ UNCHANGED <<source, tree, out, opt_output, outfile, stdout>>

(* the end of the with block: f is closed, on the normal path and when *)
(* the body raised                                                     *)
ExitWithInput ==
    /\ pc \in {"read", "read_raised"}
    /\ opened' = opened \ {"in"}
    /\ \/ pc = "read" /\ pc' = "closed" /\ UNCHANGED failedAt
       \/ pc = "read_raised" /\ Fail("read")
    /\ UNCHANGED <<source, tree, out, opt_output, outfile, stdout>>

(* tree = ast.parse(source, filename=opt.filename) *)
Parse ==
    /\ pc = "closed"
    /\ \/ source.syntax = "ok" /\ tree' = ast_parse(source) /\ pc' = "parsed"
          /\ UNCHANGED failedAt
       \/ source.syntax = "bad" /\ Fail("parse") /\ UNCHANGED tree
    /\ UNCHANGED <<source, out, opt_output, opened, outfile, stdout>>

(* tree = async_to_sync(tree) *)
Rewrite ==
    /\ pc = "parsed"
    /\ LET r == async_to_sync(tree)
       IN  \/ r.kind # "Raise" /\ out' = r /\ pc' = "rewritten" /\ UNCHANGED failedAt
           \/ r.kind = "Raise" /\ Fail("rewrite") /\ UNCHANGED out
    /\ UNCHANGED <<source, tree, opt_output, opened, outfile, stdout>>

(* output = tree_to_str(tree, opt.filename) *)
Serialize ==
    /\ pc = "rewritten"
    /\ pc' = "serialized"
    /\ UNCHANGED <<source, tree, out, opt_output, opened, outfile, stdout, failedAt>>

(* with open(opt.output, "w") as f *)
OpenOutput ==
    /\ pc = "serialized"
    /\ opt_output
    /\ \/ opened' = opened \cup {"out"} /\ outfile' = "truncated" /\ pc' = "out_open"
          /\ UNCHANGED failedAt
       \/ Fail("open_output") /\ UNCHANGED <<opened, outfile>>
    /\ UNCHANGED <<source, tree, out, opt_output, stdout>>

(* print(output, file=f) *)
WriteOutput ==
    /\ pc = "out_open"
    /\ \/ outfile' = "written" /\ pc' = "written"
       \/ pc' = "write_raised" /\ UNCHANGED outfile
    /\ UNCHANGED <<source, tree, out, opt_output, opened, stdout, failedAt>>

ExitWithOutput ==
    /\ pc \in {"written", "write_raised"}
    /\ opened' = opened \ {"out"}
    /\ \/ pc = "written" /\ pc' = "done" /\ UNCHANGED failedAt
       \/ pc = "write_raised" /\ Fail("write")
    /\ UNCHANGED <<source, tree, out, opt_output, outfile, stdout>>

(* print(output) *)
PrintOutput ==
    /\ pc = "serialized"
    /\ ~opt_output
    /\ stdout' = Append(stdout, tree_to_str(out))
    /\ pc' = "done"
    /\ UNCHANGED <<source, tree, out, opt_output, opened, outfile, failedAt>>

Next ==
    \/ OpenInput
    \/ ReadInput
    \/ ExitWithInput
    \/ Parse
    \/ Rewrite
    \/ Serialize
    \/ OpenOutput
    \/ WriteOutput
    \/ ExitWithOutput
    \/ PrintOutput

Spec == InitMain /\ [][Next]_vars

(* ------------------------------------------------------------------ *)
(* main: C8                                                            *)
(* ------------------------------------------------------------------ *)
OutputTouched ==
    \/ "out" \in opened
    \/ outfile \in {"truncated", "written"}
    \/ stdout # <<>>

(* C8: the output file is opened, and anything written to it or to     *)
(* standard output, only after reading, parsing, the four passes and   *)
(* serialization have succeeded; the input file is closed before       *)
(* parsing starts; a run that fails while opening or reading the       *)
(* input, parsing or rewriting produces no output, leaves an existing  *)
(* output file untouched and leaves no file open.                      *)
C8_OutputOnlyAfterSuccess ==
    /\ OutputTouched =>
          /\ tree.kind = "Module"
          /\ out.kind = "Module"
          /\ pc \in {"out_open", "written", "write_raised", "done", "failed"}
          /\ failedAt \in {"none", "write"}
    /\ (pc \in {"closed", "parsed", "rewritten", "serialized"} \/ tree.kind = "Module") =>
          "in" \notin opened
    /\ (pc = "failed" /\ failedAt \in {"open_input", "read", "parse", "rewrite"}) =>
          /\ ~OutputTouched
          /\ outfile \in {"absent", "old"}
          /\ opened = {}

C8_Witness ==
    /\ pc = "failed"
    /\ failedAt = "rewrite"
    /\ opt_output
    /\ outfile = "old"
    /\ opened = {}

====
